---- MODULE Spec2Model ----
(***************************************************************************)
(* Super Drive: the file catalog of DriveDashboard (src/App.tsx), its      *)
(* upload staging, the fire-and-forget analysis call of                    *)
(* handleConfirmUpload, the persist effect on localStorage, the derived    *)
(* view and its grouping by day, the analysis client                       *)
(* (src/services/gemini.ts), and the sessions: AuthScreen.handleSubmit,    *)
(* the onAuthStateChanged callback of App and the account deletion.        *)
(*                                                                         *)
(* Strings are sequences of one-character strings, so that startsWith,     *)
(* endsWith, includes and toLowerCase are computed as the code computes    *)
(* them.                                                                   *)
(***************************************************************************)
EXTENDS Integers, Sequences, FiniteSets, TLC

\* ------------------------------------------------------------------ bounds
\* number of confirmed uploads (identifiers handed out by randomUUID)
MaxUploads == 2
\* Date.now() returns a value of 1..MaxTime
MaxTime == 2
\* number of times a DriveDashboard is mounted
MaxMounts == 2
\* FileReader reads in flight at the same time
MaxReads == 2

\* ------------------------------------------------------------- strings
S_image == <<"i", "m", "a", "g", "e", "/">>
S_video == <<"v", "i", "d", "e", "o", "/">>
S_audio == <<"a", "u", "d", "i", "o", "/">>
S_text == <<"t", "e", "x", "t", "/">>
S_pdf == <<"a", "p", "p", "l", "i", "c", "a", "t", "i", "o", "n", "/", "p", "d", "f">>
S_txt == <<".", "t", "x", "t">>
S_md == <<".", "m", "d">>
S_empty == <<>>
S_failed == <<"A", "n", "a", "l", "y", "s", "i", "s", " ", "f", "a", "i", "l", "e", "d">>
S_fallback ==
  <<"C", "o", "u", "l", "d", " ", "n", "o", "t", " ", "g", "e", "n", "e", "r", "a", "t", "e", " ">> \o
  <<"s", "u", "m", "m", "a", "r", "y", " ", "a", "t", " ", "t", "h", "i", "s", " ", "t", "i", "m", "e", ".">>
S_untagged == <<"u", "n", "t", "a", "g", "g", "e", "d">>
S_dataPrefix == <<"d", "a", "t", "a", ":">>
S_base64 == <<";", "b", "a", "s", "e", "6", "4", ",">>

\* String.prototype.startsWith
StartsWith(s, p) == Len(s) >= Len(p) /\ SubSeq(s, 1, Len(p)) = p

\* String.prototype.endsWith
EndsWith(s, p) == Len(s) >= Len(p) /\ SubSeq(s, Len(s) - Len(p) + 1, Len(s)) = p

\* String.prototype.includes
Includes(s, q) == \E i \in 0..(Len(s) - Len(q)) : SubSeq(s, i + 1, i + Len(q)) = q

LowerChar(c) ==
  CASE c = "A" -> "a"
    [] c = "H" -> "h"
    [] c = "M" -> "m"
    [] c = "D" -> "d"
    [] c = "T" -> "t"
    [] c = "X" -> "x"
    [] c = "C" -> "c"
    [] OTHER -> c

\* String.prototype.toLowerCase
ToLower(s) == [i \in DOMAIN s |-> LowerChar(s[i])]

\* ------------------------------------------------------------- values
\* null: of a File or a string state (a sequence with no element), of an
\* identifier, of a localStorage entry, of a promise that has no value
Null == <<>>
NullId == 0
NoEntry == [text |-> "null", items |-> <<>>]
NoValue == [summary |-> <<>>, tags |-> <<>>]
NoUser == "nouser"
Users == {"A", "B"}

\* the account a registration creates: its email is not verified
NewUser == "N"
\* no handleSubmit, no handleDeleteAccount in flight
NoHandler == [kind |-> "none", uid |-> NoUser, stage |-> "none", dash |-> 0]
NoDeletion == [uid |-> NoUser, stage |-> "none"]
\* localStorage entries that are not the JSON of an array: text that does not
\* parse, and the JSON of an object
Garbage == [text |-> "garbage", items |-> <<>>]
NotArray == [text |-> "object", items |-> <<>>]

FileTypes == {"image", "text", "pdf", "video", "audio", "other"}

\* the raw files the user can pick (a browser File: name, type, size, bytes)
RawA == [name |-> <<"a">> \o S_txt, type |-> S_text \o <<"p">>, size |-> 10, content |-> <<"Q">>]
RawB == [name |-> <<"n">> \o S_md, type |-> S_image \o <<"p">>, size |-> 20, content |-> <<"R">>]
\* a file the browser gives no MIME type: its kind comes from the extension
RawMd == [name |-> <<"n">> \o S_md, type |-> S_empty, size |-> 30, content |-> <<"S">>]
RawFiles == {RawA, RawB, RawMd}

\* what the user can type into a name field and into a notes field
Names == {<<"x">>}
Notes == {<<"h">>}
Searches == {S_empty, <<"X">>}
FilterTypes == {"all", "image", "video", "audio", "text"}
DateRanges == {"all", "today", "week", "month"}

\* what the inference endpoint can answer
RespOk == [kind |-> "json", summary |-> <<"h">>, tags |-> << <<"x">> >>]
Responses == {RespOk, [kind |-> "transport"], [kind |-> "empty"], [kind |-> "unparsable"]}

\* ------------------------------------------------------------- state
VARIABLES
  user,               \* App: the user state (NoUser or a uid)
  dash,               \* the number of DriveDashboard instances mounted so far
  files,              \* DriveDashboard: the files state (the in-memory catalog)
  stored,             \* localStorage: uid |-> the entry gemini-drive-files-<uid>
  filter,             \* DriveDashboard: the filter state
  uploadFile,         \* DriveDashboard: the staged File
  uploadPreview,      \* DriveDashboard: the staged payload (data URL)
  uploadName,
  uploadNotes,
  isUploadModalOpen,
  editingFileId,
  editName,
  editNotes,
  isEditModalOpen,
  reads,              \* FileReader reads in flight
  calls,              \* the promises of analyzeFileContent
  nextId,             \* the next identifier crypto.randomUUID() hands out
  now,                \* the value Date.now() returned last
  apiKey,             \* process.env.API_KEY is set
  last,               \* the handler that ran last
  authUser,           \* Firebase Auth: auth.currentUser (NoUser or a uid)
  accounts,           \* Firebase Auth: the uids that have an identity record
  profiles,           \* Firestore: the uids that have a document in users
  syncs,              \* onAuthStateChanged callbacks waiting in syncUserToFirestore
  handler,            \* AuthScreen: the handleSubmit call in flight
  sent,               \* the uids a verification message was sent to
  deletion,           \* DriveDashboard: the handleDeleteAccount call in flight
  verificationEmail,  \* AuthScreen: the verificationEmail state
  crashed             \* a render has thrown: React has unmounted the tree

vars == <<user, dash, files, stored, filter, uploadFile, uploadPreview, uploadName,
          uploadNotes, isUploadModalOpen, editingFileId, editName, editNotes,
          isEditModalOpen, reads, calls, nextId, now, apiKey, last, authUser, accounts,
          profiles, syncs, handler, sent, deletion, verificationEmail, crashed>>

uploadVars == <<uploadFile, uploadPreview, uploadName, uploadNotes, isUploadModalOpen>>
editVars == <<editingFileId, editName, editNotes, isEditModalOpen>>
envVars == <<nextId, now, apiKey>>
authVars == <<authUser, accounts, profiles, syncs, handler, sent, deletion>>
rootVars == <<verificationEmail, crashed>>
dashVars == <<user, dash, files, stored, filter, uploadVars, editVars, crashed>>

\* ------------------------------------------------------------- helpers
Ids(f) == {f[i].id : i \in DOMAIN f}

InitFilter == [search |-> S_empty, type |-> "all", dateRange |-> "all"]

AnalyzingData == [isAnalyzing |-> TRUE, summary |-> S_empty, tags |-> <<>>]
FailedData_mixed == [isAnalyzing |-> FALSE, summary |-> S_failed, tags |-> <<S_untagged>>]
FailedData == [isAnalyzing |-> FALSE, summary |-> S_failed, tags |-> <<>>]
Fallback == [summary |-> S_fallback, tags |-> <<S_untagged>>]

getFileType_nameFirst(mime, name) ==
  IF EndsWith(name, S_txt) \/ EndsWith(name, S_md) \/ StartsWith(mime, S_text) THEN "text"
  ELSE IF StartsWith(mime, S_image) THEN "image"
  ELSE IF StartsWith(mime, S_video) THEN "video"
  ELSE IF StartsWith(mime, S_audio) THEN "audio"
  ELSE IF mime = S_pdf THEN "pdf"
  ELSE "other"

getFileType(mime, name) ==
  IF StartsWith(mime, S_image) THEN "image"
  ELSE IF StartsWith(mime, S_video) THEN "video"
  ELSE IF StartsWith(mime, S_audio) THEN "audio"
  ELSE IF mime = S_pdf THEN "pdf"
  ELSE IF StartsWith(mime, S_text) \/ EndsWith(name, S_txt) \/ EndsWith(name, S_md) THEN "text"
  ELSE "other"

\* FileReader.readAsDataURL
DataURL(raw) == S_dataPrefix \o raw.type \o S_base64 \o raw.content

\* JSON.stringify of the catalog, and JSON.parse of a stored entry
JSONStringify(f) == [text |-> "array", items |-> f]
JSONParse(s) == s.items

\* a sort that puts a record before the records of the same timestamp
InsertDesc_unstable(x, acc) ==
  LET k == Cardinality({i \in DOMAIN acc : acc[i].uploadDate > x.uploadDate})
  IN SubSeq(acc, 1, k) \o <<x>> \o SubSeq(acc, k + 1, Len(acc))

\* Array.prototype.sort((a, b) => b.uploadDate - a.uploadDate): stable
InsertDesc(x, acc) ==
  LET k == Cardinality({i \in DOMAIN acc : acc[i].uploadDate >= x.uploadDate})
  IN SubSeq(acc, 1, k) \o <<x>> \o SubSeq(acc, k + 1, Len(acc))

RECURSIVE SortFrom(_, _)
SortFrom(s, acc) ==
  IF s = <<>> THEN acc ELSE SortFrom(Tail(s), InsertDesc(Head(s), acc))

SortDesc(s) == SortFrom(s, <<>>)

\* Array.prototype.filter
RECURSIVE SelectSeqRec(_, _)
SelectSeqRec(s, keep) ==
  IF s = <<>> THEN <<>>
  ELSE IF Head(s).id \in keep THEN <<Head(s)>> \o SelectSeqRec(Tail(s), keep)
  ELSE SelectSeqRec(Tail(s), keep)

\* a search that does not look at the tags
MatchesSearch_noTags(f, q) ==
  \/ Includes(ToLower(f.name), q)
  \/ Includes(ToLower(f.notes), q)
  \/ Includes(ToLower(f.aiData.summary), q)

MatchesSearch(f, q) ==
  \/ Includes(ToLower(f.name), q)
  \/ Includes(ToLower(f.notes), q)
  \/ Includes(ToLower(f.aiData.summary), q)
  \/ \E i \in DOMAIN f.aiData.tags : Includes(ToLower(f.aiData.tags[i]), q)

\* the local calendar, in hours since an epoch: the hours at which a
\* calendar day starts; the second day has 25 hours and the third 23 (the
\* clock is set back and forward by one hour)
DayStarts == <<0, 24, 49, 72>>

\* the calendar day Date.prototype.toDateString names for the timestamp t
DayOf(t) == Cardinality({i \in DOMAIN DayStarts : DayStarts[i] <= t})

\* a key from the number of hours between the timestamp and the clock
DateKey_window(t, tn) ==
  IF tn - t >= 0 /\ tn - t < 24 THEN [label |-> "Today", day |-> 0]
  ELSE IF tn - t >= 24 /\ tn - t < 48 THEN [label |-> "Yesterday", day |-> 0]
  ELSE [label |-> "date", day |-> DayOf(t)]

\* the key groupFilesByDate gives a file uploaded at t when the clock shows
\* tn: Today, Yesterday (setDate(getDate() - 1)) or the formatted date
DateKey(t, tn) ==
  IF DayOf(t) = DayOf(tn) THEN [label |-> "Today", day |-> 0]
  ELSE IF DayOf(t) = DayOf(tn) - 1 THEN [label |-> "Yesterday", day |-> 0]
  ELSE [label |-> "date", day |-> DayOf(t)]

\* groups[key].push(file), a new key after the keys there are
PushGroup(groups, key, file) ==
  IF \E g \in DOMAIN groups : groups[g].key = key
  THEN [g \in DOMAIN groups |->
          IF groups[g].key = key
          THEN [groups[g] EXCEPT !.files = Append(groups[g].files, file)]
          ELSE groups[g]]
  ELSE Append(groups, [key |-> key, files |-> <<file>>])

RECURSIVE GroupFrom(_, _, _)
GroupFrom(fs, groups, tn) ==
  IF fs = <<>> THEN groups
  ELSE GroupFrom(Tail(fs), PushGroup(groups, DateKey(Head(fs).uploadDate, tn), Head(fs)), tn)

\* groupFilesByDate(files) computed when the clock shows tn
groupFilesByDate(fs, tn) == GroupFrom(fs, <<>>, tn)

\* the two filter steps of the filteredFiles memo (before its sort)
Narrowed(f, flt) ==
  LET q == ToLower(flt.search)
      bySearch == IF flt.search # S_empty
                  THEN SelectSeqRec(f, {f[i].id : i \in {j \in DOMAIN f : MatchesSearch(f[j], q)}})
                  ELSE f
  IN IF flt.type # "all"
     THEN SelectSeqRec(bySearch, {bySearch[i].id : i \in {j \in DOMAIN bySearch : bySearch[j].type = flt.type}})
     ELSE bySearch

\* the value of the filteredFiles memo
filteredFiles(f, flt) == SortDesc(Narrowed(f, flt))

\* the files array after the memo ran: with no search string and type "all"
\* result is the files array itself, and sort sorts it in place
Rendered(f, flt) ==
  IF flt.search = S_empty /\ flt.type = "all" THEN SortDesc(f) ELSE f

\* a persist effect that skips an empty catalog
Persist_skipEmpty(st, uid, f) ==
  IF f = <<>> THEN st ELSE [st EXCEPT ![uid] = JSONStringify(f)]

\* the persist effect
Persist(st, uid, f) == [st EXCEPT ![uid] = JSONStringify(f)]

\* the initializer of the files state
Hydrate(saved) == IF saved # NoEntry THEN JSONParse(saved) ELSE <<>>

\* user && user.emailVerified: the accounts of Users are verified
Shown(u) == u \in Users

\* DriveDashboard is rendered
Mounted == Shown(user) /\ ~crashed

NoModal == ~isUploadModalOpen /\ ~isEditModalOpen

\* without an API key analyzeFileContent rejects before it suspends: the
\* continuation of handleConfirmUpload runs before any other event
Busy == ~apiKey /\ \E c \in calls : c.state = "pending"

Op(name, id) == [op |-> name, id |-> id]


\* ------------------------------------------------------------- analysis
\* analyzeFileContent: getClient() runs before the try block; every failure
\* inside the try block is answered with the fallback
analyzeFileContent(key, resp) ==
  IF ~key THEN [state |-> "rejected", value |-> NoValue]
  ELSE IF resp.kind = "json"
  THEN [state |-> "fulfilled", value |-> [summary |-> resp.summary, tags |-> resp.tags]]
  ELSE [state |-> "fulfilled", value |-> Fallback]

\* a patch that does not spread the record it replaces
PatchAiData_noSpread(f, id, d) ==
  [i \in DOMAIN f |-> IF f[i].id = id
                      THEN [f[i] EXCEPT !.aiData = d, !.name = S_empty, !.notes = S_empty]
                      ELSE f[i]]

\* a patch that inserts a record when none has the identifier
PatchAiData_upsert(f, id, d) ==
  IF id \in Ids(f)
  THEN [i \in DOMAIN f |-> IF f[i].id = id THEN [f[i] EXCEPT !.aiData = d] ELSE f[i]]
  ELSE <<[id |-> id, name |-> S_empty, type |-> "other", mimeType |-> S_empty, size |-> 0,
          uploadDate |-> 0, data |-> S_empty, notes |-> S_empty, aiData |-> d]>> \o f

\* a patch that does not match on the identifier
PatchAiData_all(f, id, d) == [i \in DOMAIN f |-> [f[i] EXCEPT !.aiData = d]]

\* prev.map(f => f.id === id ? { ...f, aiData: d } : f)
PatchAiData(f, id, d) ==
  [i \in DOMAIN f |-> IF f[i].id = id THEN [f[i] EXCEPT !.aiData = d] ELSE f[i]]

\* { ...aiResult, isAnalyzing: false }
SuccessData(v) == [isAnalyzing |-> FALSE, summary |-> v.summary, tags |-> v.tags]

\* an identifier that is not fresh
randomUUID_fixed == NullId + 1
\* crypto.randomUUID()
randomUUID == nextId

\* ------------------------------------------------------------- Init
\* the state after construction, but for localStorage
InitApp ==
  /\ user = NoUser
  /\ dash = 0
  /\ files = <<>>
  /\ filter = InitFilter
  /\ uploadFile = Null
  /\ uploadPreview = Null
  /\ uploadName = S_empty
  /\ uploadNotes = S_empty
  /\ isUploadModalOpen = FALSE
  /\ editingFileId = NullId
  /\ editName = S_empty
  /\ editNotes = S_empty
  /\ isEditModalOpen = FALSE
  /\ reads = {}
  /\ calls = {}
  /\ nextId = 1
  /\ now = 1
  /\ apiKey \in BOOLEAN
  /\ last = Op("init", 0)
  /\ authUser = NoUser
  /\ accounts = Users
  /\ profiles = {}
  /\ syncs = {}
  /\ handler = NoHandler
  /\ sent = {}
  /\ deletion = NoDeletion
  /\ verificationEmail = NoUser
  /\ crashed = FALSE

\* a browser that holds no entry of the app
Init ==
  /\ stored = [u \in Users |-> NoEntry]
  /\ InitApp

\* the state of a DriveDashboard that is not mounted
DashboardGone ==
  /\ files' = <<>>
  /\ filter' = InitFilter
  /\ uploadFile' = Null
  /\ uploadPreview' = Null
  /\ uploadName' = S_empty
  /\ uploadNotes' = S_empty
  /\ isUploadModalOpen' = FALSE
  /\ editingFileId' = NullId
  /\ editName' = S_empty
  /\ editNotes' = S_empty
  /\ isEditModalOpen' = FALSE

\* ------------------------------------------------------------- App
\* JSON.parse throws on text that is not JSON; the first render throws in
\* result.sort when the parsed value is not an array
HydrationThrows(saved) == saved # NoEntry /\ saved.text # "array"

\* setUser(u) makes DriveDashboard replace AuthScreen
Mounts(u) == u # user /\ ~Shown(user) /\ Shown(u)

\* setUser(currentUser) and the render that follows it
AppSetUser(u) ==
  /\ user' = u
  /\ IF u = user
     THEN UNCHANGED <<dash, files, stored, filter, uploadVars, editVars, crashed>>
     ELSE IF ~Shown(user)
     THEN IF Shown(u)
          THEN \* DriveDashboard replaces AuthScreen: hydration, first
               \* render, persist effect
               /\ dash < MaxMounts
               /\ dash' = dash + 1
               /\ IF HydrationThrows(stored[u])
                  THEN /\ crashed' = TRUE
                       /\ UNCHANGED <<files, stored>>
                  ELSE /\ files' = Rendered(Hydrate(stored[u]), InitFilter)
                       /\ stored' = Persist(stored, u, files')
                       /\ UNCHANGED crashed
               /\ UNCHANGED <<filter, uploadVars, editVars>>
          ELSE \* AuthScreen stays
               UNCHANGED <<dash, files, stored, filter, uploadVars, editVars, crashed>>
     ELSE IF ~Shown(u)
     THEN \* AuthScreen replaces the dashboard
          /\ DashboardGone
          /\ UNCHANGED <<dash, stored, crashed>>
     ELSE \* the user prop of the mounted dashboard changes: the persist
          \* effect runs again for the new key
          /\ stored' = Persist(stored, u, files)
          /\ UNCHANGED <<dash, files, filter, uploadVars, editVars, crashed>>

\* the state of AuthScreen is gone once DriveDashboard replaces it
ScreenAfter(u) == IF Mounts(u) THEN NoUser ELSE verificationEmail

\* the current user changes, whatever the provider did
SetUser(u) ==
  /\ ~Busy /\ ~crashed
  /\ u # user
  /\ AppSetUser(u)
  /\ verificationEmail' = ScreenAfter(u)
  /\ last' = Op("setUser", 0)
  /\ UNCHANGED <<reads, calls, envVars, authVars>>

\* the page is loaded again: every component, reader and promise is gone
Reload ==
  /\ ~Busy
  /\ dash > 0
  /\ user' = NoUser
  /\ DashboardGone
  /\ reads' = {}
  /\ calls' = {}
  /\ verificationEmail' = NoUser
  /\ crashed' = FALSE
  /\ last' = Op("reload", 0)
  /\ UNCHANGED <<dash, stored, envVars, authVars>>

\* ------------------------------------------------------------- staging
prepareUpload(raw) ==
  /\ ~Busy /\ Mounted /\ NoModal
  /\ Cardinality(reads) < MaxReads
  /\ uploadFile' = <<raw>>
  /\ uploadName' = raw.name
  /\ uploadNotes' = S_empty
  /\ reads' = reads \cup {[raw |-> raw, dash |-> dash]}
  /\ isUploadModalOpen' = TRUE
  /\ last' = Op("prepareUpload", 0)
  /\ UNCHANGED <<user, dash, files, stored, filter, uploadPreview, editVars, calls, envVars, authVars, rootVars>>

\* reader.onload
ReaderLoad(r) ==
  /\ ~Busy
  /\ r \in reads
  /\ reads' = reads \ {r}
  /\ uploadPreview' = IF Mounted /\ r.dash = dash THEN DataURL(r.raw) ELSE uploadPreview
  /\ last' = Op("reader.onload", 0)
  /\ UNCHANGED <<user, dash, files, stored, filter, uploadFile, uploadName, uploadNotes,
                 isUploadModalOpen, editVars, calls, envVars, authVars, rootVars>>

\* the read fails: no onerror handler is installed
ReaderError(r) ==
  /\ ~Busy
  /\ r \in reads
  /\ reads' = reads \ {r}
  /\ last' = Op("reader.onerror", 0)
  /\ UNCHANGED <<user, dash, files, stored, filter, uploadVars, editVars, calls, envVars, authVars, rootVars>>

setUploadName(n) ==
  /\ ~Busy /\ Mounted /\ isUploadModalOpen
  /\ n # uploadName
  /\ uploadName' = n
  /\ last' = Op("setUploadName", 0)
  /\ UNCHANGED <<user, dash, files, stored, filter, uploadFile, uploadPreview, uploadNotes,
                 isUploadModalOpen, editVars, reads, calls, envVars, authVars, rootVars>>

setUploadNotes(n) ==
  /\ ~Busy /\ Mounted /\ isUploadModalOpen
  /\ n # uploadNotes
  /\ uploadNotes' = n
  /\ last' = Op("setUploadNotes", 0)
  /\ UNCHANGED <<user, dash, files, stored, filter, uploadFile, uploadPreview, uploadName,
                 isUploadModalOpen, editVars, reads, calls, envVars, authVars, rootVars>>

\* Cancel, or the close button of the upload modal
CancelUpload ==
  /\ ~Busy /\ Mounted /\ isUploadModalOpen
  /\ isUploadModalOpen' = FALSE
  /\ last' = Op("cancelUpload", 0)
  /\ UNCHANGED <<user, dash, files, stored, filter, uploadFile, uploadPreview, uploadName,
                 uploadNotes, editVars, reads, calls, envVars, authVars, rootVars>>


\* ------------------------------------------------------------- upload
NothingStaged_fileOnly == uploadFile = Null
\* !uploadFile || !uploadPreview
NothingStaged == uploadFile = Null \/ uploadPreview = Null

\* an insertion at the end of the catalog
Prepend_append(newFile, prev) == prev \o <<newFile>>
\* prev => [newFile, ...prev]
Prepend(newFile, prev) == <<newFile>> \o prev

\* handleConfirmUpload up to its await; t is the value Date.now() returns
handleConfirmUpload(t) ==
  /\ ~Busy /\ Mounted /\ isUploadModalOpen
  /\ IF NothingStaged
     THEN /\ last' = Op("confirmUpload.return", 0)
          /\ UNCHANGED <<files, stored, isUploadModalOpen, calls, nextId, now>>
     ELSE /\ nextId <= MaxUploads
          /\ LET newFile == [id |-> randomUUID,
                             name |-> uploadName,
                             type |-> getFileType(uploadFile[1].type, uploadName),
                             mimeType |-> uploadFile[1].type,
                             size |-> uploadFile[1].size,
                             uploadDate |-> t,
                             data |-> uploadPreview,
                             notes |-> uploadNotes,
                             aiData |-> AnalyzingData]
             IN /\ files' = Rendered(Prepend(newFile, files), filter)
                /\ stored' = Persist(stored, user, files')
                /\ calls' = calls \cup {[id |-> newFile.id, dash |-> dash,
                                         state |-> "pending", value |-> NoValue]}
                /\ last' = Op("confirmUpload", newFile.id)
          /\ isUploadModalOpen' = FALSE
          /\ nextId' = nextId + 1
          /\ now' = t
  /\ UNCHANGED <<user, dash, filter, uploadFile, uploadPreview, uploadName, uploadNotes,
                 editVars, reads, apiKey, authVars, rootVars>>

\* analyzeFileContent settles and handleConfirmUpload resumes after its await.
\* The state setters of a dashboard that is no longer mounted do nothing.
AnalysisSettles(c, resp) ==
  /\ c \in calls
  /\ c.state = "pending"
  /\ LET res == analyzeFileContent(apiKey, resp)
         live == Mounted /\ c.dash = dash
         d == IF res.state = "fulfilled" THEN SuccessData(res.value) ELSE FailedData
     IN /\ calls' = (calls \ {c}) \cup {[c EXCEPT !.state = res.state, !.value = res.value]}
        /\ files' = IF live THEN Rendered(PatchAiData(files, c.id, d), filter) ELSE files
        /\ stored' = IF live THEN Persist(stored, user, files') ELSE stored
        /\ uploadFile' = IF live THEN Null ELSE uploadFile
        /\ uploadPreview' = IF live THEN Null ELSE uploadPreview
        /\ last' = Op(IF ~live THEN "analysis.dropped"
                      ELSE IF res.state = "fulfilled" THEN "analysis.success"
                      ELSE "analysis.failure", c.id)
  /\ UNCHANGED <<user, dash, filter, uploadName, uploadNotes, isUploadModalOpen, editVars,
                 reads, envVars, authVars, rootVars>>

\* ------------------------------------------------------------- delete, edit
\* a delete that removes the first record, whatever the identifier
DeleteRecord_head(f, id) == IF f = <<>> THEN f ELSE Tail(f)

\* prev.filter(f => f.id !== id)
DeleteRecord(f, id) == SelectSeqRec(f, Ids(f) \ {id})

\* handleDelete of a displayed card; ok is the answer to confirm()
handleDelete(id, ok) ==
  /\ ~Busy /\ Mounted /\ NoModal
  /\ id \in Ids(filteredFiles(files, filter))
  /\ IF ok
     THEN /\ files' = Rendered(DeleteRecord(files, id), filter)
          /\ stored' = Persist(stored, user, files')
          /\ last' = Op("delete", id)
     ELSE /\ UNCHANGED <<files, stored>>
          /\ last' = Op("delete.declined", id)
  /\ UNCHANGED <<user, dash, filter, uploadVars, editVars, reads, calls, envVars, authVars, rootVars>>

openEditModal(id) ==
  /\ ~Busy /\ Mounted /\ NoModal
  /\ \E i \in DOMAIN files :
       /\ files[i].id = id
       /\ id \in Ids(filteredFiles(files, filter))
       /\ editName' = files[i].name
       /\ editNotes' = files[i].notes
  /\ editingFileId' = id
  /\ isEditModalOpen' = TRUE
  /\ last' = Op("openEditModal", id)
  /\ UNCHANGED <<user, dash, files, stored, filter, uploadVars, reads, calls, envVars, authVars, rootVars>>

setEditName(n) ==
  /\ ~Busy /\ Mounted /\ isEditModalOpen
  /\ n # editName
  /\ editName' = n
  /\ last' = Op("setEditName", 0)
  /\ UNCHANGED <<user, dash, files, stored, filter, uploadVars, editingFileId, editNotes,
                 isEditModalOpen, reads, calls, envVars, authVars, rootVars>>

setEditNotes(n) ==
  /\ ~Busy /\ Mounted /\ isEditModalOpen
  /\ n # editNotes
  /\ editNotes' = n
  /\ last' = Op("setEditNotes", 0)
  /\ UNCHANGED <<user, dash, files, stored, filter, uploadVars, editingFileId, editName,
                 isEditModalOpen, reads, calls, envVars, authVars, rootVars>>

\* an edit that writes back the enrichment the record was uploaded with
SaveEdit_stale(f, id, name, notes) ==
  [i \in DOMAIN f |-> IF f[i].id = id
                      THEN [f[i] EXCEPT !.name = name, !.notes = notes, !.aiData = AnalyzingData]
                      ELSE f[i]]

\* an edit that derives the kind again from the new name
SaveEdit_rederive(f, id, name, notes) ==
  [i \in DOMAIN f |-> IF f[i].id = id
                      THEN [f[i] EXCEPT !.name = name, !.notes = notes,
                                        !.type = getFileType(f[i].mimeType, name)]
                      ELSE f[i]]

\* prev.map(f => f.id === editingFileId ? { ...f, name: editName, notes: editNotes } : f)
SaveEdit(f, id, name, notes) ==
  [i \in DOMAIN f |-> IF f[i].id = id
                      THEN [f[i] EXCEPT !.name = name, !.notes = notes]
                      ELSE f[i]]

handleSaveEdit ==
  /\ ~Busy /\ Mounted /\ isEditModalOpen
  /\ IF editingFileId = NullId
     THEN /\ last' = Op("saveEdit.return", 0)
          /\ UNCHANGED <<files, stored, editingFileId, isEditModalOpen>>
     ELSE /\ files' = Rendered(SaveEdit(files, editingFileId, editName, editNotes), filter)
          /\ stored' = Persist(stored, user, files')
          /\ isEditModalOpen' = FALSE
          /\ editingFileId' = NullId
          /\ last' = Op("saveEdit", editingFileId)
  /\ UNCHANGED <<user, dash, filter, uploadVars, editName, editNotes, reads, calls, envVars, authVars, rootVars>>

\* Cancel, or the close button of the edit modal
CancelEdit ==
  /\ ~Busy /\ Mounted /\ isEditModalOpen
  /\ isEditModalOpen' = FALSE
  /\ last' = Op("cancelEdit", 0)
  /\ UNCHANGED <<user, dash, files, stored, filter, uploadVars, editingFileId, editName,
                 editNotes, reads, calls, envVars, authVars, rootVars>>

\* ------------------------------------------------------------- filter
\* setFilter and the render that follows: the memo runs again, the persist
\* effect does not (the files array is the same object)
setFilterSearch(q) ==
  /\ ~Busy /\ Mounted /\ NoModal
  /\ q # filter.search
  /\ filter' = [filter EXCEPT !.search = q]
  /\ files' = Rendered(files, filter')
  /\ last' = Op("setFilter", 0)
  /\ UNCHANGED <<user, dash, stored, uploadVars, editVars, reads, calls, envVars, authVars, rootVars>>

setFilterType(t) ==
  /\ ~Busy /\ Mounted /\ NoModal
  /\ t # filter.type
  /\ filter' = [filter EXCEPT !.type = t]
  /\ files' = Rendered(files, filter')
  /\ last' = Op("setFilter", 0)
  /\ UNCHANGED <<user, dash, stored, uploadVars, editVars, reads, calls, envVars, authVars, rootVars>>

\* ------------------------------------------------------------- auth
\* AuthScreen is rendered
AuthShown == ~crashed /\ ~Shown(user)

\* the form can be submitted: no verification notice is displayed and the
\* button is not disabled by isLoading
FormShown == AuthShown /\ verificationEmail = NoUser /\ handler = NoHandler

\* the callback App gives onAuthStateChanged, called with u: a verified user
\* waits in syncUserToFirestore, any other value is set at once
AuthStateChanged(u) ==
  IF Shown(u)
  THEN /\ syncs' = syncs \cup {u}
       /\ UNCHANGED dashVars
  ELSE /\ AppSetUser(u)
       /\ UNCHANGED syncs

\* the provider makes u its current user and notifies the listener when the
\* current user is another one than before
ProviderSets(u) ==
  /\ authUser' = u
  /\ IF u # authUser THEN AuthStateChanged(u) ELSE UNCHANGED <<syncs, dashVars>>

\* handleSubmit up to its first await; kind is "login" or "register"
handleSubmit(kind, u) ==
  /\ ~Busy /\ FormShown
  /\ handler' = [kind |-> kind, uid |-> u,
                 stage |-> IF kind = "login" THEN "signIn" ELSE "create", dash |-> dash]
  /\ last' = Op("submit", 0)
  /\ UNCHANGED <<dashVars, verificationEmail, reads, calls, envVars, authUser, accounts,
                 profiles, syncs, sent, deletion>>

\* signInWithEmailAndPassword settles; ok: the password is right and the
\* network reachable
SignInSettles(ok) ==
  /\ ~Busy
  /\ handler.stage = "signIn"
  /\ IF ok /\ handler.uid \in accounts
     THEN /\ ProviderSets(handler.uid)
          /\ IF Shown(handler.uid)
             THEN /\ handler' = NoHandler
                  /\ last' = Op("login.ok", 0)
             ELSE /\ handler' = [handler EXCEPT !.stage = "signOut"]
                  /\ last' = Op("login.unverified", 0)
     ELSE /\ handler' = NoHandler
          /\ last' = Op("login.error", 0)
          /\ UNCHANGED <<authUser, syncs, dashVars>>
  /\ UNCHANGED <<verificationEmail, reads, calls, envVars, accounts, profiles, sent, deletion>>

\* createUserWithEmailAndPassword settles
CreateSettles(ok) ==
  /\ ~Busy
  /\ handler.stage = "create"
  /\ IF ok /\ handler.uid \notin accounts
     THEN /\ accounts' = accounts \cup {handler.uid}
          /\ ProviderSets(handler.uid)
          /\ handler' = [handler EXCEPT !.stage = "send"]
          /\ last' = Op("register.created", 0)
     ELSE /\ handler' = NoHandler
          /\ last' = Op("register.createFailed", 0)
          /\ UNCHANGED <<accounts, authUser, syncs, dashVars>>
  /\ UNCHANGED <<verificationEmail, reads, calls, envVars, profiles, sent, deletion>>

\* sendEmailVerification settles; when it rejects, the catch block ends
\* handleSubmit
SendSettles(ok) ==
  /\ ~Busy
  /\ handler.stage = "send"
  /\ IF ok
     THEN /\ sent' = sent \cup {handler.uid}
          /\ handler' = [handler EXCEPT !.stage = "signOut"]
          /\ last' = Op("register.sent", 0)
     ELSE /\ handler' = NoHandler
          /\ last' = Op("register.sendFailed", 0)
          /\ UNCHANGED sent
  /\ UNCHANGED <<dashVars, verificationEmail, reads, calls, envVars, authUser, accounts,
                 profiles, syncs, deletion>>

\* signOut(auth) of handleSubmit settles, then setVerificationEmail: a state
\* setter of an AuthScreen that was replaced meanwhile does nothing
SignOutSettles ==
  /\ ~Busy
  /\ handler.stage = "signOut"
  /\ ProviderSets(NoUser)
  /\ verificationEmail' = IF handler.dash = dash /\ ~crashed THEN handler.uid
                          ELSE verificationEmail
  /\ last' = Op(IF handler.kind = "login" THEN "login.verify" ELSE "register.verify", 0)
  /\ handler' = NoHandler
  /\ UNCHANGED <<reads, calls, envVars, accounts, profiles, sent, deletion>>

\* syncUserToFirestore of a callback settles (ok: the document was written),
\* then setUser
SyncSettles(u, ok) ==
  /\ ~Busy /\ ~crashed
  /\ u \in syncs
  /\ syncs' = syncs \ {u}
  /\ profiles' = IF ok THEN profiles \cup {u} ELSE profiles
  /\ AppSetUser(u)
  /\ verificationEmail' = ScreenAfter(u)
  /\ last' = Op("authChanged", 0)
  /\ UNCHANGED <<reads, calls, envVars, authUser, accounts, handler, sent, deletion>>

handleSignOut ==
  /\ ~Busy /\ Mounted /\ NoModal
  /\ ProviderSets(NoUser)
  /\ last' = Op("signOut", 0)
  /\ UNCHANGED <<verificationEmail, reads, calls, envVars, accounts, profiles, handler, sent,
                 deletion>>

handleBackToLogin ==
  /\ ~Busy /\ AuthShown
  /\ verificationEmail # NoUser
  /\ verificationEmail' = NoUser
  /\ last' = Op("backToLogin", 0)
  /\ UNCHANGED <<dashVars, reads, calls, envVars, authVars>>

\* ------------------------------------------------------------- account
\* ProfileModal.handleDelete; ok is the answer to confirm()
ProfileModal_handleDelete(ok) ==
  /\ ~Busy /\ Mounted /\ NoModal
  /\ deletion = NoDeletion
  /\ IF ok
     THEN /\ deletion' = [uid |-> user, stage |-> "doc"]
          /\ last' = Op("deleteAccount", 0)
     ELSE /\ UNCHANGED deletion
          /\ last' = Op("deleteAccount.declined", 0)
  /\ UNCHANGED <<dashVars, verificationEmail, reads, calls, envVars, authUser, accounts,
                 profiles, syncs, handler, sent>>

\* a handleDeleteAccount that goes on to deleteUser when deleteDoc rejected
DeletionAfterDoc_continue(d, ok) == [d EXCEPT !.stage = "user"]

\* handleDeleteAccount after await deleteDoc: deleteUser is the next
\* statement of the try block, the catch block ends the call
DeletionAfterDoc(d, ok) == IF ok THEN [d EXCEPT !.stage = "user"] ELSE NoDeletion

\* handleDeleteAccount: deleteDoc settles; when it rejects, the catch block
\* alerts and deleteUser is not called
DeleteDocSettles(ok) ==
  /\ ~Busy
  /\ deletion.stage = "doc"
  /\ profiles' = IF ok THEN profiles \ {deletion.uid} ELSE profiles
  /\ deletion' = DeletionAfterDoc(deletion, ok)
  /\ last' = Op(IF ok THEN "deleteAccount.doc" ELSE "deleteAccount.docFailed", 0)
  /\ UNCHANGED <<dashVars, verificationEmail, reads, calls, envVars, authUser, accounts,
                 syncs, handler, sent>>

\* handleDeleteAccount: deleteUser settles; the provider signs a deleted
\* current user out; when it rejects, the catch block alerts
DeleteUserSettles(ok) ==
  /\ ~Busy
  /\ deletion.stage = "user"
  /\ IF ok /\ deletion.uid \in accounts
     THEN /\ accounts' = accounts \ {deletion.uid}
          /\ IF authUser = deletion.uid THEN ProviderSets(NoUser)
             ELSE UNCHANGED <<authUser, syncs, dashVars>>
          /\ last' = Op("deleteAccount.done", 0)
     ELSE /\ last' = Op("deleteAccount.userFailed", 0)
          /\ UNCHANGED <<accounts, authUser, syncs, dashVars>>
  /\ deletion' = NoDeletion
  /\ UNCHANGED <<verificationEmail, reads, calls, envVars, profiles, handler, sent>>

\* ------------------------------------------------------------- Next
\* the catalog: one user, one raw file, uploads, analysis, delete, edit of
\* the name, the search filter
Next ==
  \/ \E u \in {"A", NoUser} : SetUser(u)
  \/ Reload
  \/ prepareUpload(RawA)
  \/ \E r \in reads : ReaderLoad(r)
  \/ \E t \in 1..MaxTime : handleConfirmUpload(t)
  \/ \E c \in calls, resp \in Responses : AnalysisSettles(c, resp)
  \/ \E id \in 1..MaxUploads, ok \in BOOLEAN : handleDelete(id, ok)
  \/ \E id \in 1..MaxUploads : openEditModal(id)
  \/ \E n \in Names : setEditName(n)
  \/ handleSaveEdit
  \/ \E q \in Searches : setFilterSearch(q)

Spec == Init /\ [][Next]_vars


\* ------------------------------------------------------------- kinds
\* the files and the names getFileType is applied to
Mimes == {S_image \o <<"p">>, S_video \o <<"p">>, S_audio \o <<"p">>, S_pdf, S_pdf \o <<"x">>,
          S_text \o <<"p">>, S_empty, <<"x">> \o S_image}
RawKinds == {[name |-> <<"x">>, type |-> m, size |-> 10, content |-> <<"Q">>] : m \in Mimes}
NamesKinds == {<<"n">> \o S_md, <<"a">> \o S_txt, S_md \o <<"x">>, S_txt}

\* one upload of any of the files under any of the names
NextKind ==
  \/ SetUser("A")
  \/ \E raw \in RawKinds : nextId = 1 /\ prepareUpload(raw)
  \/ \E r \in reads : ReaderLoad(r)
  \/ \E n \in NamesKinds : setUploadName(n)
  \/ nextId = 1 /\ handleConfirmUpload(1)
  \/ \E c \in calls, resp \in Responses : AnalysisSettles(c, resp)

SpecKind == Init /\ [][NextKind]_vars

\* ------------------------------------------------------------- edit
\* one dashboard: uploads of a file whose kind comes from its extension,
\* analysis, delete, edit of name and notes, the search filter
NextEdit ==
  \/ SetUser("A")
  \/ prepareUpload(RawMd)
  \/ \E r \in reads : ReaderLoad(r)
  \/ \E t \in 1..MaxTime : handleConfirmUpload(t)
  \/ \E c \in calls, resp \in Responses : AnalysisSettles(c, resp)
  \/ \E id \in 1..MaxUploads, ok \in BOOLEAN : handleDelete(id, ok)
  \/ \E id \in 1..MaxUploads : openEditModal(id)
  \/ \E n \in Names : setEditName(n)
  \/ \E n \in Notes : setEditNotes(n)
  \/ handleSaveEdit
  \/ CancelEdit
  \/ \E q \in Searches : setFilterSearch(q)

SpecEdit == Init /\ [][NextEdit]_vars

\* ------------------------------------------------------------- view
\* one dashboard: uploads of two files, analysis, the search and the type
\* filter
NextView ==
  \/ SetUser("A")
  \/ \E raw \in {RawA, RawB} : prepareUpload(raw)
  \/ \E r \in reads : ReaderLoad(r)
  \/ \E t \in 1..MaxTime : handleConfirmUpload(t)
  \/ \E c \in calls, resp \in Responses : AnalysisSettles(c, resp)
  \/ \E q \in Searches : setFilterSearch(q)
  \/ \E t \in FilterTypes : setFilterType(t)

SpecView == Init /\ [][NextView]_vars

\* ------------------------------------------------------------- catalogs
\* the catalogs one dashboard builds under the initial filter at one clock
\* value: uploads of two files with and without notes, analysis
NextCatalog ==
  \/ SetUser("A")
  \/ \E raw \in {RawA, RawB} : reads = {} /\ prepareUpload(raw)
  \/ \E r \in reads : ReaderLoad(r)
  \/ \E n \in Notes : setUploadNotes(n)
  \/ handleConfirmUpload(1)
  \/ \E c \in calls, resp \in Responses : AnalysisSettles(c, resp)

SpecCatalog == Init /\ [][NextCatalog]_vars

\* ------------------------------------------------------------- days
\* the hours at which files are uploaded and at which the dashboard renders
UploadHours == {23, 24, 47, 48, 50}
RenderHours == {23, 24, 25, 48, 49, 71, 72, 73}

\* one dashboard: uploads at hours on both sides of the day boundaries
NextGroup ==
  \/ SetUser("A")
  \/ prepareUpload(RawA)
  \/ \E r \in reads : ReaderLoad(r)
  \/ \E t \in UploadHours : handleConfirmUpload(t)
  \/ \E c \in calls : AnalysisSettles(c, RespOk)
  \/ \E q \in Searches : setFilterSearch(q)

SpecGroup == Init /\ [][NextGroup]_vars

\* ------------------------------------------------------------- hydration
\* a record an earlier session stored
StoredRecord ==
  [id |-> MaxUploads + 1, name |-> RawA.name, type |-> "text", mimeType |-> RawA.type,
   size |-> RawA.size, uploadDate |-> 1, data |-> DataURL(RawA), notes |-> S_empty,
   aiData |-> FailedData]

\* a browser whose localStorage holds, for each user, no entry, text that is
\* not the JSON of an array, or a stored catalog
InitHydrate ==
  /\ stored \in [Users -> {NoEntry, Garbage, NotArray, JSONStringify(<<StoredRecord>>)}]
  /\ InitApp

\* dashboards of two users start and end; one upload
NextHydrate ==
  \/ \E u \in Users \cup {NoUser} : (user = NoUser \/ u = NoUser) /\ SetUser(u)
  \/ Reload
  \/ nextId = 1 /\ prepareUpload(RawA)
  \/ \E r \in reads : ReaderLoad(r)
  \/ nextId = 1 /\ handleConfirmUpload(1)
  \/ \E c \in calls : AnalysisSettles(c, RespOk)

SpecHydrate == InitHydrate /\ [][NextHydrate]_vars

\* ------------------------------------------------------------- sessions
\* sign-in of a verified and of an unverified account, registration, sign-out
NextAuth ==
  \/ \E u \in {"A", NewUser} : handleSubmit("login", u)
  \/ handleSubmit("register", NewUser)
  \/ \E ok \in BOOLEAN : SignInSettles(ok)
  \/ \E ok \in BOOLEAN : CreateSettles(ok)
  \/ \E ok \in BOOLEAN : SendSettles(ok)
  \/ SignOutSettles
  \/ \E u \in syncs, ok \in BOOLEAN : SyncSettles(u, ok)
  \/ handleSignOut
  \/ handleBackToLogin

SpecAuth == Init /\ [][NextAuth]_vars

\* one account: sign-in, uploads, delete of a file, deletion of the account,
\* sign-out
NextAccount ==
  \/ handleSubmit("login", "A")
  \/ \E ok \in BOOLEAN : SignInSettles(ok)
  \/ \E u \in syncs, ok \in BOOLEAN : SyncSettles(u, ok)
  \/ handleSignOut
  \/ prepareUpload(RawA)
  \/ \E r \in reads : ReaderLoad(r)
  \/ \E t \in 1..MaxTime : handleConfirmUpload(t)
  \/ \E c \in calls : AnalysisSettles(c, RespOk)
  \/ \E id \in 1..MaxUploads, ok \in BOOLEAN : handleDelete(id, ok)
  \/ \E ok \in BOOLEAN : ProfileModal_handleDelete(ok)
  \/ \E ok \in BOOLEAN : DeleteDocSettles(ok)
  \/ \E ok \in BOOLEAN : DeleteUserSettles(ok)

SpecAccount == Init /\ [][NextAccount]_vars

\* two accounts: sign-in, sign-out, one upload, edit and delete. A stages
\* and confirms the file RawA and B the file RawB, each while the provider
\* and the app agree that it is the current user
NextUsers ==
  \/ \E u \in Users : handleSubmit("login", u)
  \/ SignInSettles(TRUE)
  \/ \E u \in syncs : SyncSettles(u, TRUE)
  \/ handleSignOut
  \/ nextId = 1 /\ user = "A" /\ authUser = "A" /\ prepareUpload(RawA)
  \/ nextId = 1 /\ user = "B" /\ authUser = "B" /\ prepareUpload(RawB)
  \/ \E r \in reads : ReaderLoad(r)
  \/ /\ user = authUser
     /\ uploadFile = IF user = "A" THEN <<RawA>> ELSE <<RawB>>
     /\ handleConfirmUpload(1)
  \/ \E c \in calls : AnalysisSettles(c, RespOk)
  \/ \E id \in 1..MaxUploads : handleDelete(id, TRUE)
  \/ \E id \in 1..MaxUploads : openEditModal(id)
  \/ \E n \in Names : setEditName(n)
  \/ handleSaveEdit

SpecUsers == Init /\ [][NextUsers]_vars

\* ------------------------------------------------------------- staged files
\* one dashboard, two raw files, reads that complete or fail in any order,
\* the Cancel button, and uploads whose analysis is pending
NextStage ==
  \/ SetUser("A")
  \/ \E raw \in {RawA, RawB} : prepareUpload(raw)
  \/ \E r \in reads : ReaderLoad(r)
  \/ \E r \in reads : ReaderError(r)
  \/ CancelUpload
  \/ handleConfirmUpload(1)
  \/ \E c \in calls : AnalysisSettles(c, RespOk)

SpecStage == Init /\ [][NextStage]_vars

\* the same dashboard with a raw file RawB whose read always fails
NextUnreadable ==
  \/ SetUser("A")
  \/ \E raw \in {RawA, RawB} : prepareUpload(raw)
  \/ \E r \in reads : r.raw = RawA /\ ReaderLoad(r)
  \/ \E r \in reads : r.raw = RawB /\ ReaderError(r)
  \/ CancelUpload
  \/ handleConfirmUpload(1)
  \/ \E c \in calls : AnalysisSettles(c, RespOk)

SpecUnreadable == Init /\ [][NextUnreadable]_vars

\* ------------------------------------------------------------- clock
\* uploads, deletes, edits and patches of one dashboard under a clock that
\* never goes backwards: Date.now() returns a value not below the last one
NextClock ==
  \/ SetUser("A")
  \/ prepareUpload(RawMd)
  \/ \E r \in reads : ReaderLoad(r)
  \/ \E t \in now..MaxTime : handleConfirmUpload(t)
  \/ \E c \in calls, resp \in Responses : AnalysisSettles(c, resp)
  \/ \E id \in 1..MaxUploads : handleDelete(id, TRUE)
  \/ \E id \in 1..MaxUploads : openEditModal(id)
  \/ \E n \in Names : setEditName(n)
  \/ handleSaveEdit
  \/ \E q \in Searches : setFilterSearch(q)

SpecClock == Init /\ [][NextClock]_vars

\* ------------------------------------------------------------- claims
Catalogs == {files} \cup {JSONParse(stored[u]) : u \in Users}

Rec(cat, id) == cat[CHOOSE i \in DOMAIN cat : cat[i].id = id]

\* the call c settles in this step
Settles(c) ==
  /\ c \in calls
  /\ c.state = "pending"
  /\ \E c2 \in calls' : c2.id = c.id /\ c2.dash = c.dash /\ c2.state # "pending"

Live(c) == Mounted /\ c.dash = dash

Mutations == {"confirmUpload", "delete", "saveEdit", "analysis.success", "analysis.failure"}

C2_LatePatchIsNoOp ==
  [][\A c \in calls :
       (Settles(c) /\ Live(c) /\ c.id \notin Ids(files))
         => /\ files' = files
            /\ c.id \notin Ids(files')
            /\ c.id \notin Ids(JSONParse(stored'[user]))
            /\ stored'[user] = JSONStringify(files)]_vars

C2_Witness ==
  /\ last.op \in {"analysis.success", "analysis.failure"}
  /\ last.id \notin Ids(files)
  /\ last.id \notin Ids(JSONParse(stored[user]))
  /\ files # <<>>


\* the enrichment of the identifier in every catalog that holds it
Versions(id) == {Rec(cat, id).aiData : cat \in {k \in Catalogs : id \in Ids(k)}}

\* what a success patch can carry: the parsed answer or the fallback
C3_Results ==
  {[isAnalyzing |-> FALSE, summary |-> r.summary, tags |-> r.tags] :
     r \in {x \in Responses : x.kind = "json"}}
  \cup {[isAnalyzing |-> FALSE, summary |-> Fallback.summary, tags |-> Fallback.tags]}

C3_Placeholder == [isAnalyzing |-> FALSE, summary |-> S_failed, tags |-> <<>>]

\* C3: in the in-memory catalog and in every persisted catalog, an enrichment
\* with analyzing=false never changes again (so at most one patch is applied
\* and analyzing never returns to true), and the enrichment that replaces
\* analyzing=true is a whole analysis result or the whole failure placeholder.
C3_OnePatch ==
  [][\A id \in 1..(nextId - 1) :
       \A d \in Versions(id) : \A e \in Versions(id)' :
         /\ ~d.isAnalyzing => e = d
         /\ (d.isAnalyzing /\ ~e.isAnalyzing) => e \in C3_Results \cup {C3_Placeholder}]_vars

\* a patched record that went through an edit and a re-hydration
C3_Witness ==
  /\ dash = 2
  /\ \E i \in DOMAIN files :
       /\ ~files[i].aiData.isAnalyzing
       /\ files[i].name \in Names
  /\ \E i \in DOMAIN files : files[i].aiData = C3_Placeholder \/ files[i].aiData \in C3_Results

\* C4: once the analysis call of a record has returned or thrown, the record
\* has analyzing=false in the in-memory catalog and in every persisted
\* catalog that holds it (also after a teardown and a re-hydration).
C4_ClearedOnceSettled ==
  \A cat \in Catalogs : \A i \in DOMAIN cat :
    (\E c \in calls : c.id = cat[i].id /\ c.state # "pending") => ~cat[i].aiData.isAnalyzing

\* C6: when the call of a record of the catalog is rejected, the record gets
\* the enrichment {analyzing:false, summary:"Analysis failed", tags:[]}; its
\* other fields, the other records and the order are unchanged.
C6_FailurePlaceholder ==
  [][\A c \in calls :
       (Settles(c) /\ Live(c) /\ c.id \in Ids(files)
          /\ \E c2 \in calls' : c2.id = c.id /\ c2.state = "rejected")
         => /\ Len(files') = Len(files)
            /\ \A i \in DOMAIN files :
                 files'[i] = IF files[i].id = c.id
                             THEN [files[i] EXCEPT !.aiData = C3_Placeholder]
                             ELSE files[i]]_vars

C6_Witness ==
  /\ last.op = "analysis.failure"
  /\ last.id \in Ids(files)
  /\ Rec(files, last.id).aiData = C3_Placeholder
  /\ Len(files) = 2

\* C7: a call of analyzeFileContent never ends rejected: it is fulfilled
\* with the parsed answer or, after any failure of the client, with the
\* fallback {summary:"Could not generate summary at this time.",
\* tags:["untagged"]}.
C7_NeverPropagates ==
  \A c \in calls :
    c.state # "pending"
      => /\ c.state = "fulfilled"
         /\ \/ c.value = [summary |-> S_fallback, tags |-> <<S_untagged>>]
            \/ \E r \in Responses :
                 r.kind = "json" /\ c.value = [summary |-> r.summary, tags |-> r.tags]


\* the kind the priority list gives to a MIME type and a name
C5_Kind(mime, name) ==
  LET isImage == StartsWith(mime, S_image)
      isVideo == StartsWith(mime, S_video)
      isAudio == StartsWith(mime, S_audio)
      isPdf == mime = S_pdf
      isText == StartsWith(mime, S_text) \/ EndsWith(name, S_txt) \/ EndsWith(name, S_md)
  IN CASE isImage -> "image"
       [] ~isImage /\ isVideo -> "video"
       [] ~isImage /\ ~isVideo /\ isAudio -> "audio"
       [] ~isImage /\ ~isVideo /\ ~isAudio /\ isPdf -> "pdf"
       [] ~isImage /\ ~isVideo /\ ~isAudio /\ ~isPdf /\ isText -> "text"
       [] OTHER -> "other"

\* C5: the kind of every record is the one the priority list gives to its
\* MIME type and its name; a record with an image/ MIME type is an image
\* whatever its name ends in.
C5_KindByPriority ==
  \A i \in DOMAIN files :
    /\ files[i].type = C5_Kind(files[i].mimeType, files[i].name)
    /\ StartsWith(files[i].mimeType, S_image) => files[i].type = "image"

\* image/p uploaded under the name n.md
C5_Witness ==
  \E i \in DOMAIN files :
    /\ StartsWith(files[i].mimeType, S_image)
    /\ EndsWith(files[i].name, S_md)
    /\ files[i].type = "image"

\* C8: a confirmUpload with no staged file or no staged payload returns at
\* once: catalog and persisted catalog are unchanged, no call is started.
C8_ConfirmWithoutStagingIsNoOp ==
  [][(last'.op \in {"confirmUpload", "confirmUpload.return"}
        /\ (uploadFile = <<>> \/ uploadPreview = <<>>))
       => /\ last'.op = "confirmUpload.return"
          /\ files' = files
          /\ stored' = stored
          /\ calls' = calls
          /\ nextId' = nextId]_vars

\* the confirm ran while the read of the staged file was still in flight
C8_Witness ==
  /\ last.op = "confirmUpload.return"
  /\ uploadFile # <<>>
  /\ uploadPreview = <<>>
  /\ reads # {}

\* C9: a successful confirmUpload puts the new record, with enrichment
\* {analyzing:true, summary:"", tags:[]}, at the head of the catalog in front
\* of the earlier records, which are unchanged and in their earlier order,
\* and its analysis call is pending in that state.
C9_NewRecordAtHead ==
  [][last'.op = "confirmUpload"
       => /\ files' # <<>>
          /\ Head(files').id = last'.id
          /\ Head(files').aiData = [isAnalyzing |-> TRUE, summary |-> <<>>, tags |-> <<>>]
          /\ Tail(files') = files
          /\ \E c \in calls' : c.id = last'.id /\ c.state = "pending"]_vars

\* C10: no two records of the in-memory catalog, and no two records of a
\* persisted catalog, have the same identifier.
C10_UniqueIds ==
  \A cat \in Catalogs : \A i, j \in DOMAIN cat : cat[i].id = cat[j].id => i = j

\* two records in a catalog that was hydrated from storage
C10_Witness ==
  /\ dash = 2
  /\ Len(files) = 2
  /\ Len(JSONParse(stored[user])) = 2

\* C11: a saved edit replaces the name and the notes of the record with the
\* edited identifier and nothing else: every record keeps its position, its
\* identifier, kind, MIME type, size, upload timestamp, payload and
\* enrichment, every other record is unchanged, and the edit of an identifier
\* no record has leaves the catalog as it is.
C11_EditReplacesNameAndNotesOnly ==
  [][/\ \A id \in (1..(MaxUploads + 1)) \ Ids(files), n \in Names, o \in Notes :
          SaveEdit(files, id, n, o) = files
     /\ last'.op = "saveEdit"
          => /\ Len(files') = Len(files)
             /\ \A i \in DOMAIN files :
                  /\ files'[i].id = files[i].id
                  /\ files'[i].type = files[i].type
                  /\ files'[i].mimeType = files[i].mimeType
                  /\ files'[i].size = files[i].size
                  /\ files'[i].uploadDate = files[i].uploadDate
                  /\ files'[i].data = files[i].data
                  /\ files'[i].aiData = files[i].aiData
                  /\ files'[i].name = IF files[i].id = last'.id THEN editName ELSE files[i].name
                  /\ files'[i].notes = IF files[i].id = last'.id THEN editNotes ELSE files[i].notes]_vars

\* a record whose kind came from the extension .md was renamed to a name
\* without extension, next to a second record
C11_Witness ==
  /\ last.op = "saveEdit"
  /\ Len(files) = 2
  /\ \E i \in DOMAIN files :
       /\ files[i].id = last.id
       /\ files[i].name = <<"x">>
       /\ files[i].notes = <<"h">>
       /\ files[i].type = "text"
       /\ getFileType(files[i].mimeType, files[i].name) = "other"

\* C12: a declined file delete leaves the catalog and the stored entries as
\* they are; a declined account deletion starts no deletion and removes
\* neither the profile document nor the identity record, and no step removes
\* either of them unless a confirmed deletion is in flight; a confirmed file
\* delete removes the record with that identifier and no other, in place,
\* and the removal of an identifier no record has changes nothing.
C12_DestructiveOnlyWhenConfirmed ==
  [][/\ \A id \in (1..(MaxUploads + 1)) \ Ids(files) : DeleteRecord(files, id) = files
     /\ last'.op = "delete.declined" => files' = files /\ stored' = stored
     /\ last'.op = "deleteAccount.declined"
          => profiles' = profiles /\ accounts' = accounts /\ deletion' = NoDeletion
     /\ (deletion = NoDeletion /\ deletion' # NoDeletion) => last'.op = "deleteAccount"
     /\ (~(profiles \subseteq profiles') \/ ~(accounts \subseteq accounts'))
          => deletion # NoDeletion
     /\ last'.op = "delete"
          => /\ last'.id \in Ids(files)
             /\ Ids(files') = Ids(files) \ {last'.id}
             /\ Len(files') = Len(files) - 1
             /\ \A i \in DOMAIN files, j \in DOMAIN files :
                  (i < j /\ files[i].id # last'.id /\ files[j].id # last'.id)
                    => \E k \in DOMAIN files', l \in DOMAIN files' :
                         k < l /\ files'[k] = files[i] /\ files'[l] = files[j]
             /\ \A i \in DOMAIN files :
                  files[i].id # last'.id => \E k \in DOMAIN files' : files'[k] = files[i]]_vars

\* an account deletion was declined in a dashboard that holds one of two
\* uploaded records, the other one deleted after a confirmation
C12_Witness ==
  /\ last.op = "deleteAccount.declined"
  /\ user \in profiles
  /\ user \in accounts
  /\ Len(files) = 1
  /\ nextId = MaxUploads + 1

\* the position of the record id in the sequence v
Pos(v, id) == CHOOSE k \in DOMAIN v : v[k].id = id

\* C13: with an empty search string and type "all" the view holds every
\* record of the catalog exactly once, by upload timestamp descending, the
\* records of one timestamp in the order they have in the catalog.
C13_EmptyFilterShowsAllNewestFirst ==
  LET v == filteredFiles(files, InitFilter)
  IN /\ Len(v) = Len(files)
     /\ \A i \in DOMAIN files :
          /\ Cardinality({k \in DOMAIN v : v[k].id = files[i].id}) = 1
          /\ v[Pos(v, files[i].id)] = files[i]
     /\ \A k \in DOMAIN v, l \in DOMAIN v : k < l => v[k].uploadDate >= v[l].uploadDate
     /\ \A i \in DOMAIN files, j \in DOMAIN files :
          (i < j /\ files[i].uploadDate = files[j].uploadDate)
            => Pos(v, files[i].id) < Pos(v, files[j].id)

\* a catalog that is not in descending order, under a search string that is
\* not empty: the view of the empty filter differs from the catalog
C13_Witness ==
  /\ Len(files) = 2
  /\ files[1].uploadDate < files[2].uploadDate
  /\ filteredFiles(files, InitFilter) = <<files[2], files[1]>>

\* C14: computing the view changes nothing: a step that only changes the
\* filter (and computes the view again) leaves the in-memory catalog, its
\* order included, and every stored entry as they are.
C14_ViewIsPure ==
  [][last'.op = "setFilter" => files' = files /\ stored' = stored]_vars

\* q is a substring of s when upper and lower case are not told apart
CISubstring(q, s) ==
  \E i \in 0..(Len(s) - Len(q)) : \A k \in 1..Len(q) : LowerChar(s[i + k]) = LowerChar(q[k])

\* the search strings the view is computed for
C15_Queries == {S_empty, <<"X">>, <<"H">>, <<"M", "D">>, <<"a", ".">>}

\* the record r matches the search string and the kind of the filter
C15_Matches(r, flt) ==
  /\ \/ flt.search = S_empty
     \/ CISubstring(flt.search, r.name)
     \/ CISubstring(flt.search, r.notes)
     \/ CISubstring(flt.search, r.aiData.summary)
     \/ \E t \in DOMAIN r.aiData.tags : CISubstring(flt.search, r.aiData.tags[t])
  /\ flt.type = "all" \/ flt.type = r.type

\* C15: for every search string, kind and date range, a record of the
\* catalog is in the view iff it matches the search string (empty, or a
\* case-insensitive substring of the name, the notes, the summary or a tag)
\* and the kind ("all" or the record's kind); the view holds no other
\* record, and it is the same for every date range.
C15_MembershipBySearchAndKind ==
  \A q \in C15_Queries, ty \in FilterTypes, dr \in DateRanges :
    LET flt == [search |-> q, type |-> ty, dateRange |-> dr]
        v == filteredFiles(files, flt)
    IN /\ \A i \in DOMAIN files : (files[i].id \in Ids(v)) <=> C15_Matches(files[i], flt)
       /\ \A k \in DOMAIN v : \E i \in DOMAIN files : files[i] = v[k]
       /\ dr # "all" => v = filteredFiles(files, [flt EXCEPT !.dateRange = "all"])

\* a catalog of a text file and an image with notes: the search for X and
\* the kind image show the image only, found by a tag and by nothing else
C15_Witness ==
  /\ Len(files) = 2
  /\ \E i \in DOMAIN files : files[i].type = "text" /\ CISubstring(<<"X">>, files[i].name)
  /\ LET v == filteredFiles(files, [search |-> <<"X">>, type |-> "image", dateRange |-> "week"])
     IN /\ Len(v) = 1
        /\ v[1].type = "image"
        /\ v[1].notes = <<"h">>
        /\ ~CISubstring(<<"X">>, v[1].name)
        /\ ~CISubstring(<<"X">>, v[1].aiData.summary)
        /\ \E t \in DOMAIN v[1].aiData.tags : CISubstring(<<"X">>, v[1].aiData.tags[t])

\* the keys of the groups that hold the record id
C16_KeysOf(g, id) ==
  {g[k].key : k \in {j \in DOMAIN g : \E m \in DOMAIN g[j].files : g[j].files[m].id = id}}

\* C16: whenever the dashboard renders, every displayed record is in one
\* group: Today iff its timestamp is on the calendar day of the clock,
\* Yesterday iff it is on the day before, and else the group of its own
\* date; a record uploaded 25 hours before the clock is never in Today, and
\* a record uploaded less than 24 hours before, on the day before, is in
\* Yesterday.
C16_GroupsFollowCalendarDays ==
  \A tn \in RenderHours :
    LET v == filteredFiles(files, filter)
        g == groupFilesByDate(v, tn)
    IN \A i \in DOMAIN v :
         LET t == v[i].uploadDate
             keys == C16_KeysOf(g, v[i].id)
         IN /\ Cardinality(keys) = 1
            /\ Cardinality({k \in DOMAIN g : g[k].key \in keys}) = 1
            /\ \A key \in keys :
                 /\ key.label = "Today" <=> DayOf(t) = DayOf(tn)
                 /\ key.label = "Yesterday" <=> DayOf(t) = DayOf(tn) - 1
                 /\ key.label \notin {"Today", "Yesterday"}
                      => key.label = "date" /\ key.day = DayOf(t)
                 /\ tn - t = 25 => key.label # "Today"
                 /\ (tn - t >= 0 /\ tn - t < 24 /\ DayOf(t) = DayOf(tn) - 1)
                      => key.label = "Yesterday"

\* two records uploaded 24 hours apart on the day of 25 hours: at hour 48
\* both are in Today; at hour 49, one hour and 25 hours after the uploads,
\* both are in Yesterday; at hour 73, 25 hours after the later upload and
\* two calendar days later, both are in the group of their date
C16_Witness ==
  /\ Len(files) = 2
  /\ {files[i].uploadDate : i \in DOMAIN files} = {24, 48}
  /\ filter.search = S_empty
  /\ LET g == groupFilesByDate(filteredFiles(files, filter), 48)
     IN Len(g) = 1 /\ g[1].key.label = "Today" /\ Len(g[1].files) = 2
  /\ LET g == groupFilesByDate(filteredFiles(files, filter), 49)
     IN Len(g) = 1 /\ g[1].key.label = "Yesterday" /\ Len(g[1].files) = 2
  /\ LET g == groupFilesByDate(filteredFiles(files, filter), 73)
     IN Len(g) = 1 /\ g[1].key.label = "date" /\ Len(g[1].files) = 2

\* the user who uploaded the record r: A uploads RawA and B uploads RawB
C17_Owner(r) == IF r.size = RawA.size /\ r.mimeType = RawA.type THEN "A" ELSE "B"

\* C17: the entry stored under a user's key holds only records that user
\* uploaded, and the dashboard shown for a user lists only records that user
\* uploaded.
C17_CatalogsIsolated ==
  /\ \A u \in Users : \A i \in DOMAIN stored[u].items : C17_Owner(stored[u].items[i]) = u
  /\ Mounted => \A i \in DOMAIN files : C17_Owner(files[i]) = user

\* C18: when a dashboard starts for a user whose stored entry is absent or
\* is not the JSON of an array, it starts with the empty catalog and
\* nothing fails.
C18_HydrationToleratesMalformed ==
  [][(/\ last'.op = "setUser"
      /\ Mounts(user')
      /\ (stored[user'] = NoEntry \/ stored[user'].text # "array"))
       => (~crashed' /\ Shown(user') /\ files' = <<>>)]_vars

\* C19: the dashboard is rendered only for a current user that is not null
\* and whose email is verified; no step of the password sign-in of an
\* account whose email is not verified makes the dashboard appear, and when
\* the handler of that sign-in ends nobody is signed in at the provider and
\* AuthScreen displays the verification notice.
C19_UnverifiedNeverEnters ==
  [][/\ Mounted' => (user' # NoUser /\ user' # NewUser)
     /\ last'.op \in {"login.unverified", "login.verify"} => (Mounted' => Mounted)
     /\ last'.op = "login.verify"
          => /\ authUser' = NoUser
             /\ AuthShown'
             /\ verificationEmail' = handler.uid]_vars

\* C20: when the handler of a registration that created an account ends,
\* nobody is signed in at the provider and the dashboard was not rendered
\* since the form was submitted, also when the verification message could
\* not be sent; when it ends after signOut the message was sent.
C20_RegistrationEndsSignedOut ==
  [][/\ last'.op \in {"register.sendFailed", "register.verify"}
          => /\ authUser' = NoUser
             /\ ~Mounted'
             /\ dash' = handler.dash
     /\ last'.op = "register.verify" => handler.uid \in sent']_vars

\* C21: the profile document is deleted before the deletion of the identity
\* record is attempted: an identity record is only removed by a deletion
\* that has deleted the profile document; when deleteUser fails, the alert
\* is shown, the step leaves the profile documents as they are (deleted) and
\* the deletion ends with the identity record kept; when deleteDoc fails,
\* the alert is shown and the deletion ends without a deleteUser.
C21_ProfileBeforeIdentity ==
  [][/\ last'.op = "deleteAccount.doc"
          => /\ profiles' = profiles \ {deletion.uid}
             /\ accounts' = accounts
             /\ deletion' = [uid |-> deletion.uid, stage |-> "user"]
     /\ ~(accounts \subseteq accounts')
          => /\ deletion.stage = "user"
             /\ last'.op = "deleteAccount.done"
             /\ accounts' = accounts \ {deletion.uid}
     /\ deletion'.stage = "user" => last'.op = "deleteAccount.doc" \/ deletion.stage = "user"
     /\ last'.op = "deleteAccount.userFailed"
          => /\ deletion.stage = "user"
             /\ profiles' = profiles
             /\ accounts' = accounts
             /\ deletion' = NoDeletion
     /\ last'.op = "deleteAccount.docFailed"
          => /\ deletion.stage = "doc"
             /\ profiles' = profiles
             /\ accounts' = accounts
             /\ deletion' = NoDeletion]_vars

\* deleteUser has failed in the dashboard of a user whose profile document
\* was deleted: the identity record is there, the document is not
C21_Witness ==
  /\ last.op = "deleteAccount.userFailed"
  /\ Mounted
  /\ user \in accounts
  /\ user \notin profiles
  /\ deletion = NoDeletion

\* C22: prepareUpload changes neither the catalog nor the stored catalog; a
\* read that fails sets no payload, the upload modal is not open once the
\* read of the staged file has failed, and no record is ever created for a
\* file whose read cannot complete (RawB under SpecUnreadable).
C22_FailedReadStagesNothing ==
  /\ [][/\ last'.op = "prepareUpload" => files' = files /\ stored' = stored
        /\ last'.op = "reader.onerror" => uploadPreview' = uploadPreview]_vars
  /\ [](\A i \in 1..Len(files) : files[i].size # RawB.size)
  /\ [](last.op = "reader.onerror" /\ Mounted /\ uploadFile = <<RawB>>
          => ~isUploadModalOpen)

\* the enrichment the settled call of the identifier carries
C23_Own(id) ==
  LET c == CHOOSE x \in calls' : x.id = id
  IN IF c.state = "fulfilled"
     THEN [isAnalyzing |-> FALSE, summary |-> c.value.summary, tags |-> c.value.tags]
     ELSE C3_Placeholder

\* C23: when an analysis call settles in the dashboard that started it, also
\* while other calls are pending and in whatever order the calls settle, the
\* catalog keeps its length and the order of its identifiers, every record
\* with another identifier is unchanged in every field, and the record with
\* the call's identifier changes only in its enrichment, which becomes
\* analyzing=false with the summary and tags of its own call (or the failure
\* placeholder when the call threw).
C23_PatchOnlyOwnRecord ==
  [][\A c \in calls :
       (Settles(c) /\ Live(c))
         => /\ Len(files') = Len(files)
            /\ \A i \in DOMAIN files :
                 /\ files'[i].id = files[i].id
                 /\ files[i].id # c.id => files'[i] = files[i]
                 /\ files[i].id = c.id
                      => files'[i] = [files[i] EXCEPT !.aiData = C23_Own(c.id)]]_vars

\* two calls were pending together and the older upload settled last, with
\* an enrichment other than that of the newer one
C23_Witness ==
  /\ last.op = "analysis.success"
  /\ last.id = 1
  /\ Len(files) = 2
  /\ \A i \in DOMAIN files : ~files[i].aiData.isAnalyzing
  /\ Rec(files, 1).aiData # Rec(files, 2).aiData
  /\ Rec(files, 1).mimeType # Rec(files, 2).mimeType

\* C24: under a clock that never goes backwards, after any sequence of
\* uploads, deletes, edits and enrichment patches from the empty catalog the
\* in-memory catalog is in non-increasing order of upload timestamp, also
\* while a search is set and no render sorts the catalog.
C24_NewestFirstByInsertion ==
  \A i \in DOMAIN files : \A j \in DOMAIN files :
    i < j => files[i].uploadDate >= files[j].uploadDate

\* a record was inserted in front of an older, edited and patched record
\* while a search was set
C24_Witness ==
  /\ last.op = "confirmUpload"
  /\ filter.search # S_empty
  /\ Len(files) = 2
  /\ files[1].id = last.id
  /\ files[1].uploadDate > files[2].uploadDate
  /\ files[2].name \in Names
  /\ ~files[2].aiData.isAnalyzing

\* the session that started the call is over when the call settles: its
\* dashboard is unmounted or was replaced, or the dashboard now shows
\* another user than the one who uploaded the record
C25_SessionOver(c) ==
  \/ ~Live(c)
  \/ c.id \in Ids(files) /\ C17_Owner(Rec(files, c.id)) # user

\* C25: an analysis result that arrives after the session that started it
\* ended (sign-out, or another user took over) changes neither the in-memory
\* catalog nor any user's stored catalog.
C25_LateResultDropped ==
  [][\A c \in calls :
       (Settles(c) /\ C25_SessionOver(c)) => files' = files /\ stored' = stored]_vars

\* C26: every record of the catalog is consistent with one raw file: its
\* payload is the data URL read from the raw file its MIME type and its size
\* come from, whatever the interleaving of stagings, read completions, read
\* failures, cancels and confirms.
C26_RecordOfOneRawFile ==
  \A i \in DOMAIN files :
    \E raw \in RawFiles :
      /\ files[i].mimeType = raw.type
      /\ files[i].size = raw.size
      /\ files[i].data = DataURL(raw)

\* a file is staged: the upload modal is open and the read of the staged
\* file has completed
C27_Staged ==
  /\ isUploadModalOpen
  /\ uploadFile # Null
  /\ uploadPreview = DataURL(uploadFile[1])

\* C27: a staged upload stays staged while the analysis of an earlier upload
\* settles (it is only ended by a confirm, a cancel or another staging), and
\* a confirm of a staged upload adds the record of the staged file.
C27_StagedUntilConfirmed ==
  [][/\ (C27_Staged /\ last'.op \in {"analysis.success", "analysis.failure", "analysis.dropped"})
          => /\ C27_Staged'
             /\ uploadFile' = uploadFile
     /\ (C27_Staged /\ last'.op \in {"confirmUpload", "confirmUpload.return"})
          => /\ last'.op = "confirmUpload"
             /\ \E i \in DOMAIN files' :
                  /\ files'[i].id = last'.id
                  /\ files'[i].mimeType = uploadFile[1].type
                  /\ files'[i].data = uploadPreview]_vars

\* C28: an edit and the enrichment patch of the same record commute: on
\* every reachable catalog the two maps give the same catalog in either
\* order; a saved edit keeps the enrichment the record has (it never puts
\* analyzing=true back, also when the dialog was opened before the analysis
\* completed) and gives the record the edited name and notes; a patch keeps
\* the name and notes the record has (it never puts the old ones back) and
\* leaves the record with analyzing=false.
C28_EditAndPatchCommute ==
  /\ [](\A id \in Ids(files), n \in Names, o \in Notes, d \in C3_Results \cup {C3_Placeholder} :
          PatchAiData(SaveEdit(files, id, n, o), id, d)
            = SaveEdit(PatchAiData(files, id, d), id, n, o))
  /\ [][/\ (last'.op = "saveEdit" /\ last'.id \in Ids(files))
             => /\ Rec(files', last'.id).aiData = Rec(files, last'.id).aiData
                /\ Rec(files', last'.id).name = editName
                /\ Rec(files', last'.id).notes = editNotes
        /\ (last'.op \in {"analysis.success", "analysis.failure"} /\ last'.id \in Ids(files))
             => /\ Rec(files', last'.id).name = Rec(files, last'.id).name
                /\ Rec(files', last'.id).notes = Rec(files, last'.id).notes
                /\ ~Rec(files', last'.id).aiData.isAnalyzing]_vars

\* the patch arrived after the edit of its record was saved: the record has
\* the edited name and notes and the enrichment of the analysis
C28_Witness ==
  /\ last.op = "analysis.success"
  /\ last.id \in Ids(files)
  /\ Rec(files, last.id).name \in Names
  /\ Rec(files, last.id).notes \in Notes
  /\ Rec(files, last.id).aiData \in C3_Results

\* C29: once no onAuthStateChanged callback is still running, the user of
\* the app is the user the provider last notified (its current user), and a
\* dashboard is shown only for the user who is signed in.
C29_LastEventWins ==
  syncs = {} => /\ user = authUser
                /\ Mounted => authUser = user

====
